---------------------------- MODULE Spec2Model ----------------------------
(***************************************************************************)
(* Model of vectorizer_ai/utils.py: the argument validation helpers        *)
(* (param_exists, validate_param, validate_hex) and the enforce_types      *)
(* decorator.                                                              *)
(*                                                                         *)
(* A Python value is a record [t |-> <type name>, v |-> <payload>]:        *)
(*   NoneType : v = 0                                                      *)
(*   bool     : v \in {0, 1}                                               *)
(*   int      : v the integer                                              *)
(*   float    : v the (whole) magnitude of the float                       *)
(*   str      : v the sequence of the code points of the string            *)
(***************************************************************************)
EXTENDS Integers, Sequences, FiniteSets, TLC

VARIABLES
    fn,          \* the function under call
    input,       \* its arguments, as the caller gave them
    pc,          \* position of the call: "call", "check", "done"
    outcome,     \* "none" while running, then "return" or the exception raised
    raisedAt,    \* where the exception was raised: "none", "bind", "check", "method"
    bound,       \* enforce_types: bound.arguments, a sequence of <<name, value>>
    idx,         \* enforce_types: index in bound of the next argument to check
    calls,       \* enforce_types: the invocations of the wrapped method, in order
    methodRet,   \* enforce_types: what the wrapped method returned
    wrapperRet   \* enforce_types: what the wrapper returned

vars == <<fn, input, pc, outcome, raisedAt, bound, idx, calls, methodRet,
          wrapperRet>>

---------------------------------------------------------------------------
(* Python values *)

None == [t |-> "NoneType", v |-> 0]
PyBool(b) == [t |-> "bool", v |-> IF b THEN 1 ELSE 0]
PyInt(n) == [t |-> "int", v |-> n]
PyFloat(n) == [t |-> "float", v |-> n]
PyStr(s) == [t |-> "str", v |-> s]

NumericTypes == {"bool", "int", "float"}

\* bool(x): the truth value `if x` and any() test
Truthy(x) ==
    CASE x.t = "NoneType" -> FALSE
      [] x.t \in NumericTypes -> x.v # 0
      [] x.t = "str" -> Len(x.v) > 0
      [] OTHER -> TRUE

\* x == y
PyEq(x, y) ==
    IF x.t \in NumericTypes /\ y.t \in NumericTypes THEN x.v = y.v
    ELSE IF x.t = "str" /\ y.t = "str" THEN x.v = y.v
    ELSE x.t = "NoneType" /\ y.t = "NoneType"

\* lexicographic s <= t on code point sequences
RECURSIVE StrLe(_, _)
StrLe(s, u) ==
    IF s = <<>> THEN TRUE
    ELSE IF u = <<>> THEN FALSE
    ELSE IF Head(s) # Head(u) THEN Head(s) < Head(u)
    ELSE StrLe(Tail(s), Tail(u))

\* x <= y: "True", "False", or "TypeError" for unorderable types
PyLe(x, y) ==
    IF x.t \in NumericTypes /\ y.t \in NumericTypes
      THEN (IF x.v <= y.v THEN "True" ELSE "False")
    ELSE IF x.t = "str" /\ y.t = "str"
      THEN (IF StrLe(x.v, y.v) THEN "True" ELSE "False")
    ELSE "TypeError"

\* x in xs, for a list xs: some element equal to x
RECURSIVE PyIn(_, _)
PyIn(x, xs) ==
    IF xs = <<>> THEN FALSE
    ELSE IF PyEq(x, Head(xs)) THEN TRUE
    ELSE PyIn(x, Tail(xs))

\* any(xs)
RECURSIVE PyAny(_)
PyAny(xs) ==
    IF xs = <<>> THEN FALSE
    ELSE IF Truthy(Head(xs)) THEN TRUE
    ELSE PyAny(Tail(xs))

\* isinstance(x, cls) for the builtin classes; bool is a subclass of int
IsInstance(x, cls) ==
    \/ x.t = cls
    \/ x.t = "bool" /\ cls = "int"

---------------------------------------------------------------------------
(* validate_param *)

\* start <= param <= end, evaluated left to right with short circuit
ChainLe(start, param, end) ==
    LET c1 == PyLe(start, param) IN
    IF c1 # "True" THEN c1 ELSE PyLe(param, end)

\* validate_param with the list test guarded by `param and`, as the range
\* test is: a faulty variant
validate_param_FalsySkipsList(param, options) ==
    IF options.kind = "tuple" /\ Len(options.elems) = 2 THEN
        LET c == ChainLe(options.elems[1], param, options.elems[2]) IN
        IF ~Truthy(param) THEN "return"
        ELSE CASE c = "TypeError" -> "TypeError"
               [] c = "False" -> "ValueError"
               [] OTHER -> "return"
    ELSE IF options.kind = "list" THEN
        IF Truthy(param) /\ ~PyIn(param, options.elems)
          THEN "ValueError" ELSE "return"
    ELSE "return"

\* validate_param testing membership in any other tuple as in a list
\* (isinstance(options, (list, tuple))): a faulty variant
validate_param_TupleAsList(param, options) ==
    IF options.kind = "tuple" /\ Len(options.elems) = 2 THEN
        LET c == ChainLe(options.elems[1], param, options.elems[2]) IN
        IF ~Truthy(param) THEN "return"
        ELSE CASE c = "TypeError" -> "TypeError"
               [] c = "False" -> "ValueError"
               [] OTHER -> "return"
    ELSE IF options.kind \in {"list", "tuple"} THEN
        IF ~PyIn(param, options.elems) THEN "ValueError" ELSE "return"
    ELSE "return"

\* The outcome of validate_param(param, options).  options is
\* [kind |-> "tuple" | "list" | "set" | "NoneType", elems |-> <sequence>].
validate_param(param, options) ==
    IF options.kind = "tuple" /\ Len(options.elems) = 2 THEN
        LET start == options.elems[1]
            end == options.elems[2]
        IN  IF ~Truthy(param) THEN "return"
            ELSE LET c == ChainLe(start, param, end) IN
                 CASE c = "TypeError" -> "TypeError"
                   [] c = "False" -> "ValueError"
                   [] OTHER -> "return"
    ELSE IF options.kind = "list" THEN
        IF ~PyIn(param, options.elems) THEN "ValueError" ELSE "return"
    ELSE "return"

---------------------------------------------------------------------------
(* param_exists *)

\* ', '.join(names) raises TypeError unless every item is a str
Joinable(names) == \A k \in 1..Len(names) : names[k].t = "str"

\* The outcome of param_exists(names, params)
param_exists(names, params) ==
    IF ~PyAny(params)
      THEN (IF Joinable(names) THEN "ValueError" ELSE "TypeError")
      ELSE "return"

---------------------------------------------------------------------------
(* validate_hex: re.compile(r'^#[0-9a-fA-F]{6}$').match(color) *)

HashChar == 35
NewlineChar == 10
HexDigitCount == 6

\* the character class [0-9a-fA-F]
IsHexDigit(c) == c \in 48..57 \/ c \in 97..102 \/ c \in 65..70

\* '#' at position 1: the position after it, or 0 when it does not match
AfterHash(s) == IF Len(s) >= 1 /\ s[1] = HashChar THEN 2 ELSE 0

\* [0-9a-fA-F]{6} from position p: the position after it, or 0
AfterDigits(s, p) ==
    IF /\ p # 0
       /\ Len(s) >= p + HexDigitCount - 1
       /\ \A k \in p..(p + HexDigitCount - 1) : IsHexDigit(s[k])
      THEN p + HexDigitCount
      ELSE 0

\* '$' at position p: the end of the string, or just before a newline that
\* ends the string
DollarAt(s, p) ==
    \/ p = Len(s) + 1
    \/ p = Len(s) /\ s[p] = NewlineChar

\* pattern.match(s) is not None
PatternMatch(s) ==
    LET p == AfterDigits(s, AfterHash(s)) IN p # 0 /\ DollarAt(s, p)

\* The outcome of validate_hex(color); match() of a non-string raises TypeError
validate_hex(color) ==
    IF color.t # "str" THEN "TypeError"
    ELSE IF ~PatternMatch(color.v) THEN "ValueError"
    ELSE "return"

---------------------------------------------------------------------------
(* enforce_types.wrapper *)

\* inspect.Parameter.empty: no annotation, no default
Empty == [t |-> "empty", v |-> 0]
\* the instance a decorated method is called on
Self == [t |-> "object", v |-> 0]
\* before the wrapped method has returned anything
Unset == [t |-> "unset", v |-> 0]

\* A signature is a sequence of parameters
\* [name, annotation, default], "self" first; annotation is a class name
\* or "empty", default a value or Empty.
ParamNamesOf(sig) == {sig[k].name : k \in 1..Len(sig)}
ParamOf(sig, name) == sig[CHOOSE k \in 1..Len(sig) : sig[k].name = name]

\* sig.bind(self, *args, **kwargs) raises TypeError: too many positional
\* arguments, multiple values for a parameter, an unexpected keyword, or a
\* missing required argument
BindFails(sig, posargs, kwargs) ==
    \/ Len(posargs) > Len(sig)
    \/ \E k \in 1..Len(sig) : k <= Len(posargs) /\ sig[k].name \in DOMAIN kwargs
    \/ \E name \in DOMAIN kwargs : name \notin ParamNamesOf(sig)
    \/ \E k \in 1..Len(sig) :
          /\ k > Len(posargs)
          /\ sig[k].name \notin DOMAIN kwargs
          /\ sig[k].default = Empty

\* bound.arguments after sig.bind: the parameters the caller gave a value,
\* in the order of the signature, from parameter k on
RECURSIVE BindFrom(_, _, _, _)
BindFrom(sig, k, posargs, kwargs) ==
    IF k > Len(sig) THEN <<>>
    ELSE LET name == sig[k].name
             rest == BindFrom(sig, k + 1, posargs, kwargs)
         IN  IF k <= Len(posargs) THEN <<<<name, posargs[k]>>>> \o rest
             ELSE IF name \in DOMAIN kwargs THEN <<<<name, kwargs[name]>>>> \o rest
             ELSE rest

Bind(sig, posargs, kwargs) == BindFrom(sig, 1, posargs, kwargs)

HasArgument(arguments, name) ==
    \E j \in 1..Len(arguments) : arguments[j][1] = name
ArgumentOf(arguments, name) ==
    arguments[CHOOSE j \in 1..Len(arguments) : arguments[j][1] = name][2]

\* apply_defaults() left out: a faulty variant
ApplyDefaultsOmitted(sig, arguments) == arguments

\* bound.apply_defaults(): every parameter of the signature, in order, with
\* its bound value or else its default
RECURSIVE ApplyDefaultsFrom(_, _, _)
ApplyDefaultsFrom(sig, k, arguments) ==
    IF k > Len(sig) THEN <<>>
    ELSE LET name == sig[k].name
             rest == ApplyDefaultsFrom(sig, k + 1, arguments)
         IN  IF HasArgument(arguments, name)
               THEN <<<<name, ArgumentOf(arguments, name)>>>> \o rest
             ELSE IF sig[k].default # Empty
               THEN <<<<name, sig[k].default>>>> \o rest
             ELSE rest

ApplyDefaults(sig, arguments) == ApplyDefaultsFrom(sig, 1, arguments)

\* the test as type(value) is expected_type, which rejects a bool for an
\* int: a faulty variant
FailsCheckExactType(sig, name, value) ==
    LET expected_type == ParamOf(sig, name).annotation IN
    expected_type # "empty" /\ value.t # expected_type

\* the test of one bound argument: TRUE when it raises TypeError
FailsCheck(sig, name, value) ==
    LET expected_type == ParamOf(sig, name).annotation IN
    expected_type # "empty" /\ ~IsInstance(value, expected_type)

\* method(*bound.args): the bound values, defaults included, passed by
\* position: a faulty variant
MethodCallBoundArgs(inp) ==
    [self |-> inp.self,
     args |-> [k \in 1..(Len(bound) - 1) |-> bound[k + 1][2]],
     kwargs |-> <<>>]

\* method(self, *args, **kwargs): what the wrapped method is called with
MethodCall(inp) ==
    [self |-> inp.self, args |-> inp.args, kwargs |-> inp.kwargs]

\* what the wrapper hands back of the method's return value
WrapperReturn(r) == r

---------------------------------------------------------------------------
(* Inputs *)

MaxNum == 2       \* numbers of the options run over 0..MaxNum
MaxLen == 3       \* longest options / params / names sequence
MaxStrLen == 1    \* longest str given as param
MaxHexLen == 8    \* longest str given as color
MaxArgs == 2      \* most arguments (positional plus keyword) of a call

SeqsUpTo(S, n) == UNION {[1..k -> S] : k \in 0..n}

\* param of validate_param
ParamValues ==
    {None, PyBool(FALSE), PyBool(TRUE), PyFloat(0), PyFloat(MaxNum)}
    \cup {PyInt(n) : n \in 0..(MaxNum + 1)}
    \cup {PyStr(s) : s \in SeqsUpTo({97, 98}, MaxStrLen)}

\* the ends of a range, and the items of a tuple of another length
RangeValues == {PyFloat(1)} \cup {PyInt(n) : n \in 0..MaxNum}

\* the items of a list of options
OptionValues == {PyBool(TRUE), PyStr(<<97>>)} \cup RangeValues

OptionsSet ==
    {[kind |-> "tuple", elems |-> e] : e \in SeqsUpTo(RangeValues, MaxLen)}
    \cup {[kind |-> "list", elems |-> e] : e \in SeqsUpTo(OptionValues, MaxLen)}
    \cup {[kind |-> "set", elems |-> e] : e \in SeqsUpTo(OptionValues, 1)}
    \cup {[kind |-> "NoneType", elems |-> <<>>]}

\* color of validate_hex: strings over '\n', '#', 'f', 'g', and two non-strings
ColorValues ==
    {PyStr(s) : s \in SeqsUpTo({NewlineChar, HashChar, 102, 103}, MaxHexLen)}
    \cup {None, PyInt(1)}

\* items of params of param_exists
ExistsValues ==
    {None, PyBool(FALSE), PyInt(0), PyInt(1), PyStr(<<>>), PyStr(<<97>>)}

\* names and params of param_exists: as many names as params
ExistsInputs ==
    UNION {[names : [1..k -> {PyStr(<<97>>), None}],
            params : [1..k -> ExistsValues]] : k \in 0..MaxLen}

\* the parameters of the decorated method, after self
ParamNames == <<"a", "b">>
Annotations == {"empty", "str", "int"}
DefaultValues == {Empty, None, PyStr(<<97>>), PyInt(1)}
SelfParam == [name |-> "self", annotation |-> "empty", default |-> Empty]

\* Python lets no parameter without a default follow one with a default
Signatures ==
    {<<SelfParam>> \o
        [k \in 1..Len(ParamNames) |->
            [name |-> ParamNames[k], annotation |-> ps[k].annotation,
             default |-> ps[k].default]] :
        ps \in {qs \in [1..Len(ParamNames) ->
                          [annotation : Annotations, default : DefaultValues]] :
                  \A k \in 1..(Len(ParamNames) - 1) :
                      qs[k].default # Empty => qs[k + 1].default # Empty}}

ArgValues == {None, PyStr(<<97>>), PyInt(1), PyBool(TRUE)}
KwNames == {ParamNames[k] : k \in 1..Len(ParamNames)} \cup {"z"}
KwargsSet == UNION {[D -> ArgValues] : D \in SUBSET KwNames}

\* a call passes at most MaxArgs arguments
Calls ==
    {c \in [args : SeqsUpTo(ArgValues, MaxArgs), kwargs : KwargsSet] :
        Len(c.args) + Cardinality(DOMAIN c.kwargs) <= MaxArgs}

EnforceInputs ==
    {[sig |-> sg, self |-> Self, args |-> c.args, kwargs |-> c.kwargs] :
        sg \in Signatures, c \in Calls}

\* what the wrapped method does when called: return a value, or raise
MethodReturns == {None, PyStr(<<97>>)}
MethodRaises == {"ValueError", "TypeError"}

---------------------------------------------------------------------------
(* The calls *)

Idle ==
    /\ pc = "call"
    /\ outcome = "none"
    /\ raisedAt = "none"
    /\ bound = <<>>
    /\ idx = 0
    /\ calls = <<>>
    /\ methodRet = Unset
    /\ wrapperRet = Unset

InitParam ==
    /\ fn = "validate_param"
    /\ input \in [param : ParamValues, options : OptionsSet]
    /\ Idle

InitHex ==
    /\ fn = "validate_hex"
    /\ input \in [color : ColorValues]
    /\ Idle

InitExists ==
    /\ fn = "param_exists"
    /\ input \in ExistsInputs
    /\ Idle

InitEnforce ==
    /\ fn = "enforce_types"
    /\ input \in EnforceInputs
    /\ Idle

Init == InitParam \/ InitHex \/ InitExists \/ InitEnforce

\* a helper runs to its outcome in one step
Finish(result) ==
    /\ outcome' = result
    /\ pc' = "done"
    /\ UNCHANGED <<fn, input, raisedAt, bound, idx, calls, methodRet, wrapperRet>>

ValidateParam ==
    /\ pc = "call"
    /\ fn = "validate_param"
    /\ Finish(validate_param(input.param, input.options))

ValidateHex ==
    /\ pc = "call"
    /\ fn = "validate_hex"
    /\ Finish(validate_hex(input.color))

ParamExists ==
    /\ pc = "call"
    /\ fn = "param_exists"
    /\ Finish(param_exists(input.names, input.params))

\* the wrapper raises TypeError at `where`
Raise(where) ==
    /\ outcome' = "TypeError"
    /\ raisedAt' = where
    /\ pc' = "done"

\* sig.bind(self, *args, **kwargs); bound.apply_defaults()
BindStep ==
    /\ pc = "call"
    /\ fn = "enforce_types"
    /\ LET posargs == <<input.self>> \o input.args IN
       IF BindFails(input.sig, posargs, input.kwargs)
         THEN /\ Raise("bind")
              /\ UNCHANGED <<bound, idx>>
         ELSE /\ bound' = ApplyDefaults(input.sig,
                                         Bind(input.sig, posargs, input.kwargs))
              /\ idx' = 1
              /\ pc' = "check"
              /\ UNCHANGED <<outcome, raisedAt>>
    /\ UNCHANGED <<fn, input, calls, methodRet, wrapperRet>>

\* one round of the loop over bound.arguments.items()
CheckArg ==
    /\ pc = "check"
    /\ idx <= Len(bound)
    /\ LET name == bound[idx][1]
           value == bound[idx][2]
       IN  IF name # "self" /\ FailsCheck(input.sig, name, value)
             THEN /\ Raise("check")
                  /\ UNCHANGED idx
             ELSE /\ idx' = idx + 1
                  /\ UNCHANGED <<pc, outcome, raisedAt>>
    /\ UNCHANGED <<fn, input, bound, calls, methodRet, wrapperRet>>

\* the loop over bound.arguments.items() has run out without raising
ChecksDoneOffByOne == pc = "check" /\ idx >= Len(bound)
ChecksDone == pc = "check" /\ idx > Len(bound)

\* return method(self, *args, **kwargs), the method returning r
InvokeReturn ==
    /\ ChecksDone
    /\ \E r \in MethodReturns :
          /\ methodRet' = r
          /\ wrapperRet' = WrapperReturn(r)
    /\ calls' = Append(calls, MethodCall(input))
    /\ outcome' = "return"
    /\ pc' = "done"
    /\ UNCHANGED <<fn, input, raisedAt, bound, idx>>

\* return method(self, *args, **kwargs), the method raising e
InvokeRaise ==
    /\ ChecksDone
    /\ \E e \in MethodRaises :
          /\ outcome' = e
          /\ raisedAt' = "method"
    /\ calls' = Append(calls, MethodCall(input))
    /\ pc' = "done"
    /\ UNCHANGED <<fn, input, bound, idx, methodRet, wrapperRet>>

NextEnforce == BindStep \/ CheckArg \/ InvokeReturn \/ InvokeRaise
NextHelpers == ValidateParam \/ ValidateHex \/ ParamExists
Next == NextHelpers \/ NextEnforce

Spec == Init /\ [][Next]_vars
SpecParam == InitParam /\ [][ValidateParam]_vars
SpecHex == InitHex /\ [][ValidateHex]_vars
SpecExists == InitExists /\ [][ParamExists]_vars
SpecHelpers == (InitParam \/ InitHex \/ InitExists) /\ [][NextHelpers]_vars
SpecEnforce == InitEnforce /\ [][NextEnforce]_vars

---------------------------------------------------------------------------
(* Properties of validate_param *)

IsNumber(x) == x.t \in {"int", "float"}
IsRange(options) == options.kind = "tuple" /\ Len(options.elems) = 2
InClosedRange(param, options) ==
    options.elems[1].v <= param.v /\ param.v <= options.elems[2].v
ParamDone == fn = "validate_param" /\ pc = "done"

\* C1: with options a 2-tuple (start, end) of numbers, start <= end,
\* validate_param raises ValueError for a numeric param exactly when param is
\* outside the closed range, and returns for every param inside it.
C1_RangeRaisesIffOutside ==
    ( /\ ParamDone
      /\ IsRange(input.options)
      /\ IsNumber(input.param)
      /\ IsNumber(input.options.elems[1])
      /\ IsNumber(input.options.elems[2])
      /\ input.options.elems[1].v <= input.options.elems[2].v )
    => /\ outcome = "ValueError" <=> ~InClosedRange(input.param, input.options)
       /\ InClosedRange(input.param, input.options) => outcome = "return"

IsMember(param, elems) == \E k \in 1..Len(elems) : PyEq(param, elems[k])

\* C2: with options a list, validate_param raises ValueError exactly when
\* param equals no item of options, and returns for every member.
C2_ListRaisesIffNotMember ==
    (ParamDone /\ input.options.kind = "list")
    => /\ outcome = "ValueError" <=> ~IsMember(input.param, input.options.elems)
       /\ IsMember(input.param, input.options.elems) => outcome = "return"

\* C2 witness: a falsy param that is not in a non-empty list was rejected.
C2_Witness ==
    /\ ParamDone
    /\ input.options.kind = "list"
    /\ Len(input.options.elems) > 0
    /\ ~Truthy(input.param)
    /\ ~IsMember(input.param, input.options.elems)
    /\ outcome = "ValueError"

\* C10: with options neither a list nor a tuple of length 2, validate_param
\* returns without error for every param.
C10_OtherOptionsNeverRaise ==
    ( /\ ParamDone
      /\ input.options.kind # "list"
      /\ ~IsRange(input.options) )
    => outcome = "return"

\* C10 witness: a param that is in none of the three items of a tuple was
\* accepted.
C10_Witness ==
    /\ ParamDone
    /\ input.options.kind = "tuple"
    /\ Len(input.options.elems) = 3
    /\ ~IsMember(input.param, input.options.elems)
    /\ Truthy(input.param)
    /\ outcome = "return"

---------------------------------------------------------------------------
(* Properties of validate_hex, param_exists, and the helpers together *)

\* '#' followed by exactly six hexadecimal digits, and nothing else
IsHexColor(s) ==
    /\ Len(s) = 7
    /\ s[1] = HashChar
    /\ \A k \in 2..7 : IsHexDigit(s[k])

\* C3: validate_hex returns for a string exactly when it is '#' followed by
\* six hexadecimal digits, and raises ValueError for every other string.
C3_HexReturnsIffSevenChars ==
    (fn = "validate_hex" /\ pc = "done" /\ input.color.t = "str")
    => /\ outcome = "return" <=> IsHexColor(input.color.v)
       /\ ~IsHexColor(input.color.v) => outcome = "ValueError"

\* an argument the caller supplied: anything but None
Provided(x) == x.t # "NoneType"

\* C4: param_exists raises ValueError exactly when no value of params is
\* provided, and returns whenever one is, be it 0, False or ''.
C4_RaisesIffNoneProvided ==
    (fn = "param_exists" /\ pc = "done" /\ Joinable(input.names))
    => /\ outcome = "ValueError"
            <=> \A k \in 1..Len(input.params) : ~Provided(input.params[k])
       /\ (\E k \in 1..Len(input.params) : Provided(input.params[k]))
            => outcome = "return"

\* C7: validate_param, validate_hex and param_exists end by returning or by
\* raising ValueError, never otherwise.
C7_HelpersOnlyRaiseValueError ==
    (fn \in {"validate_param", "validate_hex", "param_exists"} /\ pc = "done")
    => outcome \in {"return", "ValueError"}

---------------------------------------------------------------------------
(* Properties of enforce_types.wrapper *)

EnforceDone == fn = "enforce_types" /\ pc = "done"

\* the parameters of the method other than self
OtherParams(inp) == 2..Len(inp.sig)

\* the caller gave parameter k a value, by position or by keyword
Passed(inp, k) ==
    k <= Len(inp.args) + 1 \/ inp.sig[k].name \in DOMAIN inp.kwargs
PassedValue(inp, k) ==
    IF k <= Len(inp.args) + 1 THEN inp.args[k - 1]
    ELSE inp.kwargs[inp.sig[k].name]

\* the value parameter k has in the call: the caller's, or else the default
FinalValue(inp, k) ==
    IF Passed(inp, k) THEN PassedValue(inp, k) ELSE inp.sig[k].default

\* parameter p is annotated and value is no instance of the annotation
IllTyped(p, value) ==
    p.annotation # "empty" /\ ~IsInstance(value, p.annotation)

SomePassedIllTyped(inp) ==
    \E k \in OtherParams(inp) :
        Passed(inp, k) /\ IllTyped(inp.sig[k], PassedValue(inp, k))

SomeFinalIllTyped(inp) ==
    \E k \in OtherParams(inp) : IllTyped(inp.sig[k], FinalValue(inp, k))

\* an annotated parameter the caller left out has a default of another type
SomeOmittedDefaultIllTyped(inp) ==
    \E k \in OtherParams(inp) :
        /\ ~Passed(inp, k)
        /\ inp.sig[k].default # Empty
        /\ IllTyped(inp.sig[k], inp.sig[k].default)

\* C5 as stated, for the calls that bind and whose method does not raise:
\* the call raises TypeError exactly when an argument the caller passed is no
\* instance of its parameter's annotation.
C5_RaisesIffPassedIllTyped ==
    (EnforceDone /\ raisedAt \notin {"bind", "method"})
    => (outcome = "TypeError" <=> SomePassedIllTyped(input))

\* C5 amended: for the calls that bind, the wrapper's check raises TypeError
\* exactly when a bound argument other than self, passed by the caller or
\* filled in from the default, is no instance of its parameter's annotation;
\* the argument it raises on belongs to an annotated parameter.
C5_RaisesIffBoundIllTyped ==
    /\ (EnforceDone /\ raisedAt \notin {"bind", "method"})
         => (outcome = "TypeError" <=> SomeFinalIllTyped(input))
    /\ (EnforceDone /\ raisedAt = "check")
         => ParamOf(input.sig, bound[idx][1]).annotation # "empty"

\* C5 witness: the check raised although no argument the caller passed is
\* ill typed, in a call that passes a value for a parameter without annotation.
C5_Witness ==
    /\ EnforceDone
    /\ raisedAt = "check"
    /\ ~SomePassedIllTyped(input)
    /\ \E k \in OtherParams(input) :
          Passed(input, k) /\ input.sig[k].annotation = "empty"

\* C6: the wrapped method is invoked only once every bound argument has
\* passed its check, and at most once; when the wrapper raises TypeError the
\* method has not been invoked.
C6_ValidationPrecedesCall ==
    fn = "enforce_types" =>
        /\ Len(calls) <= 1
        /\ calls # <<>> =>
              /\ raisedAt \in {"none", "method"}
              /\ Len(bound) = Len(input.sig)
              /\ idx = Len(bound) + 1
              /\ ~SomeFinalIllTyped(input)
        /\ (outcome = "TypeError" /\ raisedAt \in {"bind", "check"})
              => calls = <<>>

\* C6 witness: the method was invoked in a call whose parameters are all
\* annotated, the last one filled in from its default.
C6_Witness ==
    /\ EnforceDone
    /\ Len(calls) = 1
    /\ \A k \in OtherParams(input) : input.sig[k].annotation # "empty"
    /\ ~Passed(input, Len(input.sig))

\* C8: when every bound argument passes its check the wrapper invokes the
\* method exactly once, with the self, the positional and the keyword
\* arguments of the caller, and returns the method's result unchanged.
C8_CallForwardedUnchanged ==
    (EnforceDone /\ raisedAt \notin {"bind", "check"})
    => /\ Len(calls) = 1
       /\ calls[1].self = input.self
       /\ calls[1].args = input.args
       /\ calls[1].kwargs = input.kwargs
       /\ outcome = "return" => (methodRet # Unset /\ wrapperRet = methodRet)

\* C8 witness: the wrapper returned from a call that passes one argument by
\* keyword and leaves a parameter to its default.
C8_Witness ==
    /\ EnforceDone
    /\ outcome = "return"
    /\ DOMAIN input.kwargs # {}
    /\ \E k \in OtherParams(input) : ~Passed(input, k)
    /\ wrapperRet = PyStr(<<97>>)

\* C9: a call that leaves out an annotated parameter whose default is no
\* instance of the annotation raises TypeError, and the method is not invoked.
C9_OmittedDefaultIsChecked ==
    (EnforceDone /\ SomeOmittedDefaultIllTyped(input))
    => (outcome = "TypeError" /\ calls = <<>>)

\* C9 witness: the check raised on the default None of a str parameter while
\* every argument the caller passed is well typed.
C9_Witness ==
    /\ EnforceDone
    /\ raisedAt = "check"
    /\ ~SomePassedIllTyped(input)
    /\ \E k \in OtherParams(input) :
          /\ ~Passed(input, k)
          /\ input.sig[k].annotation = "str"
          /\ input.sig[k].default = None
          /\ bound[idx][1] = input.sig[k].name
    /\ \E k \in OtherParams(input) : Passed(input, k)

===========================================================================
